---------------------------- MODULE Spec2Model ----------------------------
(***************************************************************************)
(* Model of the Feasure AI API: the /ai dispatcher (src/main.py), the      *)
(* intent router (src/app/tasks/intent/intent_router.py) and the search    *)
(* agent (src/app/tasks/search/search_agent.py).                           *)
(*                                                                         *)
(* The OpenAI client is an opaque oracle: each call either raises or       *)
(* returns a text.  A text is modelled by what json.loads makes of it: not *)
(* JSON at all, or a JSON value.  pydantic (v2, default configuration:     *)
(* lax mode, extra fields ignored) is modelled by what model_validate does *)
(* with that value.  Confidence values are counted in tenths (5 is 0.5).   *)
(***************************************************************************)
EXTENDS Integers, Sequences, FiniteSets

VARIABLES
    force_mode,   \* AIRequest.force_mode of the request being handled
    pc,           \* position of ai_endpoint
    calls,        \* oracle call sites issued so far, in order
    inflight,     \* oracle calls issued and not yet returned
    intent_raw,   \* what the oracle answered to detect_intent
    search_raw,   \* what the oracle answered to build_search_from_prompt
    chat_raw,     \* what the oracle answered to call_llm_for_chat
    intent,       \* the IntentResult detect_intent returned
    sb_result,    \* the SearchBuilderResult build_search_from_prompt returned
    response      \* what ai_endpoint gives its caller

vars == <<force_mode, pc, calls, inflight, intent_raw, search_raw, chat_raw,
          intent, sb_result, response>>

-----------------------------------------------------------------------------
(* Bounds of the model *)

\* longest filters array the oracle returns
MaxFilters == 3

\* longest columns array the oracle returns
MaxColumns == 2

\* how far (in tenths) a numeric confidence may lie outside [0.0, 1.0]
MaxOvershoot == 2

-----------------------------------------------------------------------------
(* JSON values *)

Absent == [t |-> "absent", n |-> 0, s |-> ""]
Null == [t |-> "null", n |-> 0, s |-> ""]
NaN == [t |-> "nan", n |-> 0, s |-> ""]
Str(x) == [t |-> "str", n |-> 0, s |-> x]
Num(k) == [t |-> "num", n |-> k, s |-> ""]

\* Optional[...] values of the Python side
None == [some |-> FALSE, n |-> 0, s |-> ""]
SomeStr(x) == [some |-> TRUE, n |-> 0, s |-> x]
SomeNum(k) == [some |-> TRUE, n |-> k, s |-> ""]

-----------------------------------------------------------------------------
(* Exceptions *)

\* detail is the message without its interpolated part, arg the interpolated
\* name (the column, field id or operator the message quotes)
NoExc == [type |-> "none", status |-> 0, detail |-> "", arg |-> ""]
HTTPException(code, text, name) ==
    [type |-> "HTTPException", status |-> code, detail |-> text, arg |-> name]
\* what client.chat.completions.create raises (network, auth, rate limit, 5xx)
APIError == [type |-> "APIError", status |-> 0, detail |-> "Connection error.", arg |-> ""]
ValueError(text) == [type |-> "ValueError", status |-> 0, detail |-> text, arg |-> ""]

Raise(e, nothing) == [ok |-> FALSE, value |-> nothing, exc |-> e]
Return(v) == [ok |-> TRUE, value |-> v, exc |-> NoExc]

-----------------------------------------------------------------------------
(* Oracle replies.  kind: "none" (no call yet), "failed" (the call raised),
   "text" (a text that is not JSON), "json" (a text json.loads parses, data
   being the parsed value) *)

json_loads(reply, blank) ==
    IF reply.kind = "json"
    THEN Return(reply.data)
    ELSE Raise(ValueError("JSONDecodeError"), blank)

-----------------------------------------------------------------------------
(* intent_router.py *)

\* IntentLabel
CHAT == "chat"
SEARCH_BUILDER == "search_builder"
IntentLabel == {CHAT, SEARCH_BUILDER}

\* a parsed JSON value as IntentResult.model_validate sees it: isobj (a JSON
\* object or not), its three keys, and whether it holds any other key
BlankIntentData ==
    [isobj |-> FALSE, intent |-> Absent, confidence |-> Absent,
     reasoning |-> Absent, extra |-> FALSE]

NoIntent == [intent |-> "none", confidence |-> 0, reasoning |-> None]

\* float(): the strings the model meets, as tenths
NumericStrings == {"0.5", "1.5"}
ParseFloat(s) == IF s = "0.5" THEN 5 ELSE 15

BlankFloat == [nan |-> FALSE, n |-> 0]

\* pydantic's lax float: a JSON number (NaN included), or a numeric string
FloatOf(jv) ==
    CASE jv.t = "num" -> Return([nan |-> FALSE, n |-> jv.n])
      [] jv.t = "nan" -> Return([nan |-> TRUE, n |-> 0])
      [] jv.t = "str" /\ jv.s \in NumericStrings ->
            Return([nan |-> FALSE, n |-> ParseFloat(jv.s)])
      [] OTHER -> Raise(ValueError("Input should be a valid number"), BlankFloat)

\* validate_confidence clamping into [0.0, 1.0] instead of raising
validate_confidence_clamping(v) ==
    Return([nan |-> FALSE,
            n |-> IF v.nan \/ v.n < 0 THEN 0 ELSE IF v.n > 10 THEN 10 ELSE v.n])

\* IntentResult.validate_confidence: not (0.0 <= v <= 1.0) raises
validate_confidence(v) ==
    IF ~(~v.nan /\ 0 <= v.n /\ v.n <= 10)
    THEN Raise(ValueError("confidence must be between 0 and 1"), BlankFloat)
    ELSE Return(v)

\* Optional[str] = None
OptionalStrOf(jv) ==
    CASE jv.t \in {"absent", "null"} -> Return(None)
      [] jv.t = "str" -> Return(SomeStr(jv.s))
      [] OTHER -> Raise(ValueError("Input should be a valid string"), None)

\* IntentResult.model_validate(data): keys outside the model are ignored
IntentResult_model_validate(data) ==
    LET conf == FloatOf(data.confidence)
        checked == IF conf.ok THEN validate_confidence(conf.value) ELSE conf
        why == OptionalStrOf(data.reasoning)
    IN  IF /\ data.isobj
           /\ data.intent.t = "str" /\ data.intent.s \in IntentLabel
           /\ checked.ok
           /\ why.ok
        THEN Return([intent |-> data.intent.s, confidence |-> checked.value.n,
                     reasoning |-> why.value])
        ELSE Raise(ValueError("ValidationError"), NoIntent)

\* detect_intent, from the oracle's reply on
detect_intent(reply) ==
    IF reply.kind = "failed"
    THEN Raise(HTTPException(502, "Intent LLM call failed", ""), NoIntent)
    ELSE LET parsed == json_loads(reply, BlankIntentData)
         IN  IF ~parsed.ok
             THEN Raise(HTTPException(500, "Invalid JSON from intent model", ""), NoIntent)
             ELSE LET result == IntentResult_model_validate(parsed.value)
                  IN  IF ~result.ok
                      THEN Raise(HTTPException(400, "Intent validation failed", ""), NoIntent)
                      ELSE Return(result.value)

-----------------------------------------------------------------------------
(* search_agent.py *)

\* FEASURE_SEARCH_LIBRARY["fields"]["transaction"]
allowed_fields ==
    {"tranid", "entity", "amount", "status", "trandate", "department",
     "class", "location"}

ALLOWED_RECORD_TYPES == {"purchaseorder", "salesorder", "transaction"}

ALLOWED_OPERATORS ==
    {"anyof", "noneof", "is", "isnot", "greaterthan", "lessthan",
     "greaterthanorequalto", "lessthanorequalto", "onorafter", "onorbefore",
     "on"}

\* An element of a filters array: t is "list" (a JSON array, items its
\* elements) or "str" (a JSON string, items[1] the string)
List(xs) == [t |-> "list", items |-> xs]
Token(x) == [t |-> "str", items |-> <<x>>]

BlankSpec ==
    [action |-> "", recordType |-> "", searchTitle |-> "", filters |-> <<>>,
     columns |-> <<>>]
NoSpec == [some |-> FALSE, spec |-> BlankSpec]
SomeSpec(sp) == [some |-> TRUE, spec |-> sp]

NoResult == [mode |-> "none", search_spec |-> BlankSpec, explanation |-> None]

\* a parsed JSON value as SearchBuilderResult.model_validate sees it: isobj,
\* the keys mode and explanation, and the keys of its search_spec object
BlankSearchData ==
    [isobj |-> FALSE, mode |-> Absent, action |-> Absent, recordType |-> Absent,
     searchTitle |-> Absent, filters |-> <<>>, columns |-> <<>>,
     explanation |-> Absent]

\* SearchSpec.validate_record_type
validate_record_type(v) == v \in ALLOWED_RECORD_TYPES

\* validate_filters_not_empty without its test
validate_filters_any(v) == TRUE

\* SearchSpec.validate_filters_not_empty: "if not v: raise"
validate_filters_not_empty(v) == Len(v) > 0

\* SearchSpec.validate_columns_not_empty
validate_columns_not_empty(v) == Len(v) > 0

\* SearchSpec's fields: action a Literal, recordType and searchTitle str,
\* filters List[Any], columns List[str]
SearchSpec_valid(data) ==
    /\ data.action.t = "str" /\ data.action.s = "create_saved_search"
    /\ data.recordType.t = "str" /\ validate_record_type(data.recordType.s)
    /\ data.searchTitle.t = "str"
    /\ validate_filters_not_empty(data.filters)
    /\ validate_columns_not_empty(data.columns)

\* SearchBuilderResult.model_validate(data)
SearchBuilderResult_model_validate(data) ==
    LET expl == OptionalStrOf(data.explanation)
    IN  IF /\ data.isobj
           /\ data.mode.t = "str" /\ data.mode.s = "search_builder"
           /\ SearchSpec_valid(data)
           /\ expl.ok
        THEN Return([mode |-> data.mode.s,
                     search_spec |->
                        [action |-> data.action.s,
                         recordType |-> data.recordType.s,
                         searchTitle |-> data.searchTitle.s,
                         filters |-> data.filters,
                         columns |-> data.columns],
                     explanation |-> expl.value])
        ELSE Raise(ValueError("ValidationError"), NoResult)

\* _validate_against_library, 1) the loop over spec.columns
RECURSIVE check_columns(_, _)
check_columns(columns, i) ==
    IF i > Len(columns)
    THEN NoExc
    ELSE IF columns[i] \notin allowed_fields
         THEN HTTPException(400, "Column is not allowed / not in Feasure library",
                            columns[i])
         ELSE check_columns(columns, i + 1)

\* check_part without the test of the field id
check_part_operator_only(part) ==
    IF part.t = "list" /\ Len(part.items) >= 3
    THEN IF part.items[2] \notin ALLOWED_OPERATORS
         THEN HTTPException(400, "Filter operator is not allowed", part.items[2])
         ELSE NoExc
    ELSE NoExc

\* _validate_against_library, the checks of one filter part
check_part(part) ==
    IF part.t = "list" /\ Len(part.items) >= 3
    THEN LET field_id == part.items[1]
             operator == part.items[2]
         IN  IF field_id \notin allowed_fields /\ field_id # "type"
             THEN HTTPException(400,
                      "Filter field is not allowed / not in Feasure library", field_id)
             ELSE IF operator \notin ALLOWED_OPERATORS
                  THEN HTTPException(400, "Filter operator is not allowed", operator)
                  ELSE NoExc
    ELSE NoExc

\* _validate_against_library, 2) the loop over spec.filters
RECURSIVE check_filters(_, _)
check_filters(filters, i) ==
    IF i > Len(filters)
    THEN NoExc
    ELSE IF check_part(filters[i]) # NoExc
         THEN check_part(filters[i])
         ELSE check_filters(filters, i + 1)

\* _validate_against_library with its two loops in the other order
validate_against_library_filters_first(spec) ==
    IF check_filters(spec.filters, 1) # NoExc
    THEN check_filters(spec.filters, 1)
    ELSE check_columns(spec.columns, 1)

\* _validate_against_library: the exception it raises, NoExc when it returns
validate_against_library(spec) ==
    IF check_columns(spec.columns, 1) # NoExc
    THEN check_columns(spec.columns, 1)
    ELSE check_filters(spec.filters, 1)

\* build_search_from_prompt, from the oracle's reply on
build_search_from_prompt(reply) ==
    IF reply.kind = "failed"
    THEN Raise(HTTPException(502, "LLM call failed", ""), NoResult)
    ELSE LET parsed == json_loads(reply, BlankSearchData)
         IN  IF ~parsed.ok
             THEN Raise(HTTPException(500, "Invalid JSON from model", ""), NoResult)
             ELSE LET result == SearchBuilderResult_model_validate(parsed.value)
                  IN  IF ~result.ok
                      THEN Raise(HTTPException(400, "Search spec validation failed", ""),
                                 NoResult)
                      ELSE LET e == validate_against_library(result.value.search_spec)
                           IN  IF e # NoExc
                               THEN Raise(e, NoResult)
                               ELSE Return(result.value)

-----------------------------------------------------------------------------
(* main.py *)

\* AIResponse: reply, search_spec, explanation and intent_confidence default
\* to None
AIResponse(m, r, sp, ex, conf) ==
    [mode |-> m, reply |-> r, search_spec |-> sp, explanation |-> ex,
     intent_confidence |-> conf]

BlankResponse == AIResponse("", None, NoSpec, None, None)

NoResponse == [status |-> "none", body |-> BlankResponse, exc |-> NoExc]
Ok(body) == [status |-> "ok", body |-> body, exc |-> NoExc]
Error(e) == [status |-> "error", body |-> BlankResponse, exc |-> e]

\* call_llm_for_chat, from the oracle's reply on: no try around the call
call_llm_for_chat(reply) ==
    IF reply.kind = "failed"
    THEN Raise(APIError, None)
    ELSE Return(reply.content)

\* ai_endpoint's except clauses: an HTTPException is raised again as it is,
\* anything else becomes HTTPException(500, str(e))
ai_endpoint_except(e) ==
    IF e.type = "HTTPException"
    THEN e
    ELSE HTTPException(500, e.detail, "")

\* NextCall with force_mode "chat" not honoured
NextCall_chat_not_forced(fm, at, it) ==
    IF at = "start"
    THEN IF fm = SomeStr("search_builder")
         THEN "search"
         ELSE "intent"
    ELSE IF it.intent = SEARCH_BUILDER
         THEN "search"
         ELSE "chat"

\* NextCall with the label's branches swapped
NextCall_label_swapped(fm, at, it) ==
    IF at = "start"
    THEN IF fm = SomeStr("chat")
         THEN "chat"
         ELSE IF fm = SomeStr("search_builder")
              THEN "search"
              ELSE "intent"
    ELSE IF it.intent = SEARCH_BUILDER
         THEN "chat"
         ELSE "search"

\* ai_endpoint's branches: the call it makes at "start" (on entry) and at
\* "classified" (detect_intent has returned `it`)
NextCall(fm, at, it) ==
    IF at = "start"
    THEN IF fm = SomeStr("chat")
         THEN "chat"
         ELSE IF fm = SomeStr("search_builder")
              THEN "search"
              ELSE "intent"
    ELSE IF it.intent = SEARCH_BUILDER
         THEN "search"
         ELSE "chat"

\* ai_endpoint's two returns after call_llm_for_chat
chat_response(fm, it, reply) ==
    IF fm = SomeStr("chat")
    THEN AIResponse("chat", reply, NoSpec, None, None)
    ELSE AIResponse("chat", reply, NoSpec, None, SomeNum(it.confidence))

\* search_response with intent_confidence left out of the routed return
search_response_without_confidence(fm, it, sb) ==
    AIResponse("search_builder", None, SomeSpec(sb.search_spec), sb.explanation, None)

\* ai_endpoint's two returns after build_search_from_prompt
search_response(fm, it, sb) ==
    IF fm = SomeStr("search_builder")
    THEN AIResponse("search_builder", None, SomeSpec(sb.search_spec),
                    sb.explanation, None)
    ELSE AIResponse("search_builder", None, SomeSpec(sb.search_spec),
                    sb.explanation, SomeNum(it.confidence))

-----------------------------------------------------------------------------
(* What the request and the oracle may be *)

\* AIRequest.force_mode: absent, the two recognised values, another string
ForceModes == {None, SomeStr("chat"), SomeStr("search_builder"), SomeStr("CHAT")}

NoReply(blank) == [kind |-> "none", data |-> blank]
Failed(blank) == [kind |-> "failed", data |-> blank]
NotJSON(blank) == [kind |-> "text", data |-> blank]
JSON(d) == [kind |-> "json", data |-> d]

Confidences ==
    {Num(k) : k \in (0 - MaxOvershoot)..(10 + MaxOvershoot)}
        \cup {NaN, Str("0.5"), Str("1.5"), Str("high"), Absent, Null}

IntentDatas ==
    [isobj : {TRUE},
     intent : {Str(CHAT), Str(SEARCH_BUILDER), Str("delete_all"), Absent},
     confidence : Confidences,
     reasoning : {Absent, Str("asks for a list of records"), Num(1)},
     extra : BOOLEAN]
        \cup {BlankIntentData}

IntentReplies ==
    {Failed(BlankIntentData), NotJSON(BlankIntentData)}
        \cup {JSON(d) : d \in IntentDatas}

\* sequences over S of length 0..n
RECURSIVE SeqsUpTo(_, _)
SeqsUpTo(S, n) ==
    IF n = 0
    THEN {<<>>}
    ELSE LET shorter == SeqsUpTo(S, n - 1)
         IN  shorter \cup {Append(q, x) : q \in shorter, x \in S}

FilterParts ==
    {List(<<"amount", "greaterthan", "50000">>),
     List(<<"type", "anyof", "SalesOrd">>),
     List(<<"custom_weird_field", "is", "x">>),
     List(<<"amount", "matches", "5*">>),
     List(<<"custom_weird_field", "matches", "x">>),
     List(<<"custom_weird_field", "is">>),
     Token("AND")}

ColumnIds == {"tranid", "secretfield"}

\* A well-shaped answer with one thing wrong, or nothing
Shape(defect, fs, cs) ==
    [isobj |-> defect # "not_object",
     mode |-> IF defect = "mode" THEN Str("chat") ELSE Str("search_builder"),
     action |-> IF defect = "action" THEN Str("delete_saved_search")
                ELSE Str("create_saved_search"),
     recordType |-> IF defect = "recordType" THEN Str("invoice") ELSE Str("salesorder"),
     searchTitle |-> CASE defect = "empty_title" -> Str("")
                       [] defect = "no_title" -> Absent
                       [] OTHER -> Str("Sales orders over 50k"),
     filters |-> fs,
     columns |-> cs,
     explanation |-> Str("Sales orders above 50,000.")]

Defects ==
    {"none", "not_object", "mode", "action", "recordType", "empty_title", "no_title"}

\* the search answers build_search_from_prompt is checked under
AllFilters == SeqsUpTo(FilterParts, MaxFilters)
AllColumns == SeqsUpTo(ColumnIds, MaxColumns)

\* the search answers the dispatcher is checked under: one of each outcome
SampleDefects == {"none", "action"}
SampleFilters ==
    {<<List(<<"amount", "greaterthan", "50000">>)>>,
     <<List(<<"custom_weird_field", "is", "x">>)>>,
     <<List(<<"amount", "matches", "5*">>)>>}
SampleColumns == {<<"tranid">>, <<"secretfield">>}

ChatReplies ==
    {[kind |-> "failed", content |-> None],
     [kind |-> "text", content |-> SomeStr("A saved search is a reusable query.")],
     [kind |-> "text", content |-> SomeStr("")]}

NoChatReply == [kind |-> "none", content |-> None]

\* a call that has not returned
Pending(blank) == [ok |-> FALSE, value |-> blank, exc |-> NoExc]

-----------------------------------------------------------------------------
(* The request handler, oracle call by oracle call *)

Init ==
    /\ force_mode \in ForceModes
    /\ pc = "start"
    /\ calls = <<>>
    /\ inflight = {}
    /\ intent_raw = NoReply(BlankIntentData)
    /\ search_raw = NoReply(BlankSearchData)
    /\ chat_raw = NoChatReply
    /\ intent = Pending(NoIntent)
    /\ sb_result = Pending(NoResult)
    /\ response = NoResponse

\* ai_endpoint reaches detect_intent, which sends its request
CallIntent ==
    /\ pc = "start"
    /\ NextCall(force_mode, pc, intent.value) = "intent"
    /\ pc' = "await_intent"
    /\ calls' = Append(calls, "intent")
    /\ inflight' = inflight \cup {"intent"}
    /\ UNCHANGED <<force_mode, intent_raw, search_raw, chat_raw, intent,
                   sb_result, response>>

\* the oracle answers detect_intent, which returns or raises
IntentReturns ==
    /\ pc = "await_intent"
    /\ \E reply \in IntentReplies :
          LET r == detect_intent(reply)
          IN  /\ intent_raw' = reply
              /\ intent' = r
              /\ pc' = IF r.ok THEN "classified" ELSE "done"
              /\ response' = IF r.ok THEN response
                             ELSE Error(ai_endpoint_except(r.exc))
    /\ inflight' = inflight \ {"intent"}
    /\ UNCHANGED <<force_mode, calls, search_raw, chat_raw, sb_result>>

\* ai_endpoint reaches build_search_from_prompt, which sends its request
CallSearch ==
    /\ pc \in {"start", "classified"}
    /\ NextCall(force_mode, pc, intent.value) = "search"
    /\ pc' = "await_search"
    /\ calls' = Append(calls, "search")
    /\ inflight' = inflight \cup {"search"}
    /\ UNCHANGED <<force_mode, intent_raw, search_raw, chat_raw, intent,
                   sb_result, response>>

\* build_search_from_prompt returns or raises on `reply`, and ai_endpoint
\* returns or raises
SearchDone(reply) ==
    LET r == build_search_from_prompt(reply)
    IN  /\ search_raw' = reply
        /\ sb_result' = r
        /\ response' = IF r.ok
                       THEN Ok(search_response(force_mode, intent.value, r.value))
                       ELSE Error(ai_endpoint_except(r.exc))
        /\ pc' = "done"
        /\ inflight' = inflight \ {"search"}
        /\ UNCHANGED <<force_mode, calls, intent_raw, chat_raw, intent>>

\* the oracle answers build_search_from_prompt: the call fails, or gives a
\* text that is not JSON, or a JSON value
SearchReturns(defects, filterSeqs, columnSeqs) ==
    /\ pc = "await_search"
    /\ \/ \E reply \in {Failed(BlankSearchData), NotJSON(BlankSearchData)} :
             SearchDone(reply)
       \/ \E d \in defects, fs \in filterSeqs, cs \in columnSeqs :
             SearchDone(JSON(Shape(d, fs, cs)))

\* ai_endpoint reaches call_llm_for_chat, which sends its request
CallChat ==
    /\ pc \in {"start", "classified"}
    /\ NextCall(force_mode, pc, intent.value) = "chat"
    /\ pc' = "await_chat"
    /\ calls' = Append(calls, "chat")
    /\ inflight' = inflight \cup {"chat"}
    /\ UNCHANGED <<force_mode, intent_raw, search_raw, chat_raw, intent,
                   sb_result, response>>

\* the oracle answers call_llm_for_chat, and ai_endpoint returns or raises
ChatReturns ==
    /\ pc = "await_chat"
    /\ \E reply \in ChatReplies :
          LET r == call_llm_for_chat(reply)
          IN  /\ chat_raw' = reply
              /\ response' = IF r.ok
                             THEN Ok(chat_response(force_mode, intent.value, r.value))
                             ELSE Error(ai_endpoint_except(r.exc))
    /\ pc' = "done"
    /\ inflight' = inflight \ {"chat"}
    /\ UNCHANGED <<force_mode, calls, intent_raw, search_raw, intent, sb_result>>

Next ==
    \/ CallIntent
    \/ IntentReturns
    \/ CallSearch
    \/ SearchReturns(SampleDefects, SampleFilters, SampleColumns)
    \/ CallChat
    \/ ChatReturns

Spec == Init /\ [][Next]_vars

\* build_search_from_prompt on its own, under every answer of the oracle
InitSearch ==
    /\ Init
    /\ force_mode = SomeStr("search_builder")

NextSearch ==
    \/ CallSearch
    \/ SearchReturns(Defects, AllFilters, AllColumns)

SpecSearch == InitSearch /\ [][NextSearch]_vars

-----------------------------------------------------------------------------
(* The vocabulary of the claims *)

\* the error kinds, read off the exception that reaches the caller
GenerationUnavailable(e) == e.type = "HTTPException" /\ e.status = 502
MalformedResponse(e) ==
    /\ e.type = "HTTPException" /\ e.status = 500
    /\ e.detail \in {"Invalid JSON from model", "Invalid JSON from intent model"}
SchemaViolation(e) ==
    /\ e.type = "HTTPException" /\ e.status = 400
    /\ e.detail \in {"Search spec validation failed", "Intent validation failed"}
DisallowedField(e) ==
    /\ e.type = "HTTPException" /\ e.status = 400
    /\ e.detail \in {"Column is not allowed / not in Feasure library",
                      "Filter field is not allowed / not in Feasure library"}
DisallowedOperator(e) ==
    /\ e.type = "HTTPException" /\ e.status = 400
    /\ e.detail = "Filter operator is not allowed"

RegistryFields ==
    {"tranid", "entity", "amount", "status", "trandate", "department",
     "class", "location"}
RegistryOperators ==
    {"anyof", "noneof", "is", "isnot", "greaterthan", "lessthan",
     "greaterthanorequalto", "lessthanorequalto", "onorafter", "onorbefore",
     "on"}
RegistryRecordTypes == {"purchaseorder", "salesorder", "transaction"}

IsTriplet(part) == part.t = "list" /\ Len(part.items) = 3
IsConnector(part) == part.t = "str" /\ part.items[1] \in {"AND", "OR"}
FieldOutside(part) == IsTriplet(part) /\ part.items[1] \notin RegistryFields \cup {"type"}
OperatorOutside(part) == IsTriplet(part) /\ part.items[2] \notin RegistryOperators

Positions(q) == 1..Len(q)
First(S) == CHOOSE i \in S : \A j \in S : i <= j

\* the oracle's answer to the search call is a JSON object of the
\* SearchBuilderResult shape, its title any text
WellShaped(d) ==
    /\ d.isobj
    /\ d.mode = Str("search_builder")
    /\ d.action = Str("create_saved_search")
    /\ d.recordType.t = "str" /\ d.recordType.s \in RegistryRecordTypes
    /\ d.searchTitle.t = "str"
    /\ d.filters # <<>>
    /\ d.columns # <<>>

SearchAnswered == pc = "done" /\ search_raw.kind # "none"
SearchData == search_raw.data
Returned == sb_result.ok
ReturnedSpec == sb_result.value.search_spec
\* build_search_from_prompt raised and the caller of ai_endpoint got that error
\* and no spec
Rejected ==
    /\ ~sb_result.ok
    /\ response.status = "error"
    /\ response.exc = sb_result.exc
    /\ response.body.search_spec = NoSpec

-----------------------------------------------------------------------------
(* C1: a returned search_spec names only allowed vocabulary: every column is
   in the allowed field list, every filter triplet's field id is "type" or in
   the list, every triplet's operator is an allowed operator.  A well-shaped
   answer with a column or a triplet field outside the list is rejected and
   no spec is returned; the error is DisallowedField whenever the column or
   field is what validation meets first (any column; a triplet field with no
   disallowed operator in an earlier triplet), and DisallowedOperator
   otherwise. *)
C1_AllowedVocabulary ==
    /\ Returned =>
          /\ \A i \in Positions(ReturnedSpec.columns) :
                ReturnedSpec.columns[i] \in RegistryFields
          /\ \A i \in Positions(ReturnedSpec.filters) :
                /\ ~FieldOutside(ReturnedSpec.filters[i])
                /\ ~OperatorOutside(ReturnedSpec.filters[i])
    /\ (SearchAnswered /\ search_raw.kind = "json" /\ WellShaped(SearchData)) =>
          LET badCols == {i \in Positions(SearchData.columns) :
                            SearchData.columns[i] \notin RegistryFields}
              badFields == {i \in Positions(SearchData.filters) :
                              FieldOutside(SearchData.filters[i])}
              badOps == {i \in Positions(SearchData.filters) :
                           /\ OperatorOutside(SearchData.filters[i])
                           /\ ~FieldOutside(SearchData.filters[i])}
          IN  /\ (badCols # {} \/ badFields # {}) =>
                    /\ Rejected
                    /\ DisallowedField(sb_result.exc) \/ DisallowedOperator(sb_result.exc)
              /\ badCols # {} => DisallowedField(sb_result.exc)
              /\ (badFields # {} /\ \A j \in badOps : First(badFields) < j) =>
                    DisallowedField(sb_result.exc)

\* Scenario E: salesorder with a filter on custom_weird_field is rejected
C1_Witness ==
    /\ SearchAnswered
    /\ search_raw.kind = "json" /\ WellShaped(SearchData)
    /\ SearchData.recordType = Str("salesorder")
    /\ SearchData.columns = <<"tranid">>
    /\ SearchData.filters = <<List(<<"amount", "greaterthan", "50000">>), Token("AND"),
                              List(<<"custom_weird_field", "is", "x">>)>>
    /\ Rejected
    /\ DisallowedField(sb_result.exc)

(* C2 as the spec states it: a returned SearchSpec has action
   "create_saved_search", a recordType of the three, a non-empty searchTitle,
   non-empty filters and non-empty columns. *)
C2_Original ==
    Returned =>
        /\ ReturnedSpec.action = "create_saved_search"
        /\ ReturnedSpec.recordType \in RegistryRecordTypes
        /\ ReturnedSpec.searchTitle # ""
        /\ ReturnedSpec.filters # <<>>
        /\ ReturnedSpec.columns # <<>>

(* C2, amended: a returned SearchSpec has action "create_saved_search", a
   recordType of the three, a searchTitle that is a text (the oracle's, which
   may be empty), non-empty filters and non-empty columns; an answer that
   breaks any of these (a missing title, an empty filters array, ...) fails
   with SchemaViolation and nothing is returned. *)
C2_Amended ==
    /\ Returned =>
          /\ ReturnedSpec.action = "create_saved_search"
          /\ ReturnedSpec.recordType \in RegistryRecordTypes
          /\ SearchData.searchTitle = Str(ReturnedSpec.searchTitle)
          /\ ReturnedSpec.filters # <<>>
          /\ ReturnedSpec.columns # <<>>
    /\ (/\ SearchAnswered /\ search_raw.kind = "json"
        /\ \/ SearchData.action # Str("create_saved_search")
           \/ SearchData.recordType.t # "str"
           \/ SearchData.recordType.s \notin RegistryRecordTypes
           \/ SearchData.searchTitle.t # "str"
           \/ SearchData.filters = <<>>
           \/ SearchData.columns = <<>>) =>
          Rejected /\ SchemaViolation(sb_result.exc)

\* a spec with an empty title is returned
C2_Witness ==
    /\ SearchAnswered
    /\ Returned
    /\ ReturnedSpec.searchTitle = ""
    /\ response.status = "ok"
    /\ response.body.search_spec = SomeSpec(ReturnedSpec)

(* C3: the filters of a returned SearchSpec are a well-formed
   FilterExpression: every element is a triplet or a connector "AND"/"OR",
   neighbours are of different kinds, and there is at least one triplet. *)
C3_WellFormedFilters ==
    Returned =>
        LET fs == ReturnedSpec.filters
        IN  /\ \A i \in Positions(fs) : IsTriplet(fs[i]) \/ IsConnector(fs[i])
            /\ \A i \in Positions(fs) :
                  i < Len(fs) => (IsTriplet(fs[i]) <=> IsConnector(fs[i + 1]))
            /\ \E i \in Positions(fs) : IsTriplet(fs[i])

-----------------------------------------------------------------------------
Forced == force_mode \in {SomeStr("chat"), SomeStr("search_builder")}
IntentAnswered == intent_raw.kind # "none"
IntentData == intent_raw.data
Classified == intent.ok
\* detect_intent raised and the caller of ai_endpoint got that error
IntentRejected ==
    /\ ~intent.ok
    /\ intent.value = NoIntent
    /\ pc = "done"
    /\ response.status = "error"
    /\ response.exc = intent.exc

\* a JSON confidence outside [0.0, 1.0]: a number below 0 or above 1, NaN, or
\* a numeric text naming such a number
OutsideUnitInterval(jv) ==
    \/ jv.t = "num" /\ (jv.n < 0 \/ jv.n > 10)
    \/ jv.t = "nan"
    \/ jv = Str("1.5")

(* C4: an IntentResult returned by detect_intent has 0.0 <= confidence <=
   1.0; when the oracle's JSON object carries a confidence outside the unit
   interval detect_intent fails with SchemaViolation and returns nothing:
   the value is not clamped into range. *)
C4_ConfidenceInUnitInterval ==
    /\ Classified =>
          /\ 0 <= intent.value.confidence /\ intent.value.confidence <= 10
          /\ IntentData.confidence.t = "num" =>
                intent.value.confidence = IntentData.confidence.n
    /\ (/\ IntentAnswered /\ intent_raw.kind = "json"
        /\ OutsideUnitInterval(IntentData.confidence)) =>
          IntentRejected /\ SchemaViolation(intent.exc)

\* confidence 1.1 with everything else in order
C4_Witness ==
    /\ intent_raw = JSON([isobj |-> TRUE, intent |-> Str(SEARCH_BUILDER),
                          confidence |-> Num(11),
                          reasoning |-> Str("asks for a list of records"),
                          extra |-> FALSE])
    /\ IntentRejected
    /\ SchemaViolation(intent.exc)

(* C5: detect_intent returns an IntentResult only for a JSON object that is
   exactly of the IntentResult shape: intent one of the two labels, confidence
   a number, reasoning a text or absent, and no other key. *)
C5_ExactShape ==
    Classified =>
        /\ IntentData.isobj
        /\ IntentData.intent \in {Str(CHAT), Str(SEARCH_BUILDER)}
        /\ IntentData.confidence.t = "num"
        /\ IntentData.reasoning.t \in {"absent", "null", "str"}
        /\ ~IntentData.extra

(* C6: with force_mode "chat" the only call is the chat generation; with
   force_mode "search_builder" the only call is the search builder's; with
   any other force_mode the first call is the intent classifier's. *)
C6_ForcedModeBypass ==
    /\ force_mode = SomeStr("chat") =>
          /\ \A i \in Positions(calls) : calls[i] = "chat"
          /\ pc # "start" => calls = <<"chat">>
          /\ ~IntentAnswered /\ search_raw.kind = "none"
    /\ force_mode = SomeStr("search_builder") =>
          /\ \A i \in Positions(calls) : calls[i] = "search"
          /\ pc # "start" => calls = <<"search">>
          /\ ~IntentAnswered /\ chat_raw.kind = "none"
    /\ ~Forced =>
          /\ calls # <<>> => calls[1] = "intent"
          /\ pc # "start" => calls # <<>>

\* a forced chat request answered
C6_Witness ==
    /\ force_mode = SomeStr("chat")
    /\ pc = "done"
    /\ calls = <<"chat">>
    /\ response.status = "ok"
    /\ response.body.mode = "chat"

(* C7: a request makes at most two oracle calls, never two at once; on the
   unforced path the first is the intent call, and a second call is issued
   only once that call has returned a validated IntentResult; the search call
   is issued only on label search_builder; once a step has failed no call
   is issued. *)
C7_State ==
    /\ Len(calls) <= 2
    /\ Cardinality(inflight) <= 1
    /\ ~Forced /\ calls # <<>> => calls[1] = "intent"
    /\ Len(calls) = 2 =>
          /\ ~Forced
          /\ calls[1] = "intent" /\ calls[2] \in {"search", "chat"}
          /\ "intent" \notin inflight
          /\ IntentAnswered /\ Classified
    /\ (~Forced /\ \E i \in Positions(calls) : calls[i] = "search") =>
          Classified /\ intent.value.intent = SEARCH_BUILDER
    /\ (~Forced /\ \E i \in Positions(calls) : calls[i] = "chat") =>
          Classified /\ intent.value.intent = CHAT
    /\ (IntentAnswered /\ ~Classified) => calls = <<"intent">> /\ inflight = {}
    /\ response.status = "error" => inflight = {}

(* C7, with the steps: C7_State holds throughout, and no call is issued
   while one is in flight or after a failure. *)
C7_SequentialCalls ==
    /\ []C7_State
    /\ [][/\ inflight # {} => calls' = calls
          /\ response.status = "error" => calls' = calls]_vars

\* classification, then the search builder
C7_Witness ==
    /\ ~Forced
    /\ pc = "done"
    /\ calls = <<"intent", "search">>
    /\ search_raw.kind = "json"

(* C8: whenever an oracle call fails, at any of the three call sites, the
   caller of ai_endpoint gets GenerationUnavailable. *)
C8_UnavailableOnEveryPath ==
    (\/ intent_raw.kind = "failed"
     \/ search_raw.kind = "failed"
     \/ chat_raw.kind = "failed") =>
        /\ response.status = "error"
        /\ GenerationUnavailable(response.exc)

(* C9: a successful unforced request answers along the classifier's label:
   search_builder gives mode "search_builder", the builder's search_spec and
   no reply; chat gives mode "chat", the reply text and no search_spec; both
   carry the confidence the classifier returned.  A forced request carries no
   intent_confidence. *)
C9_ResponseFollowsLabel ==
    response.status = "ok" =>
        LET body == response.body
        IN  /\ (~Forced /\ intent.value.intent = SEARCH_BUILDER) =>
                  /\ body.mode = "search_builder"
                  /\ Returned /\ body.search_spec = SomeSpec(ReturnedSpec)
                  /\ body.reply = None
            /\ (~Forced /\ intent.value.intent # SEARCH_BUILDER) =>
                  /\ intent.value.intent = CHAT
                  /\ body.mode = "chat"
                  /\ chat_raw.kind = "text" /\ body.reply = chat_raw.content
                  /\ body.search_spec = NoSpec
            /\ ~Forced =>
                  /\ Classified
                  /\ body.intent_confidence = SomeNum(intent.value.confidence)
                  /\ IntentData.confidence.t = "num" =>
                        body.intent_confidence = SomeNum(IntentData.confidence.n)
            /\ Forced => body.intent_confidence = None

\* "show me all open purchase orders": search_builder at 0.9, a spec built
C9_Witness ==
    /\ force_mode = None
    /\ IntentData.intent = Str(SEARCH_BUILDER)
    /\ IntentData.confidence = Num(9)
    /\ response.status = "ok"
    /\ response.body.mode = "search_builder"
    /\ response.body.search_spec.some
    /\ response.body.intent_confidence = SomeNum(9)

(* C10: build_search_from_prompt parses, then validates the shape, then the
   vocabulary, and fails with the first failure's kind: a text that is not
   JSON gives MalformedResponse; JSON of the wrong shape gives
   SchemaViolation whatever vocabulary it names; then the first column
   outside the list is reported, and only then the first filter part at
   fault, its field id before its operator.  A result is returned only when
   nothing fails, with the oracle's filters and columns unchanged. *)
C10_FirstFailureWins ==
    SearchAnswered =>
        LET d == SearchData
            badCols == {i \in Positions(d.columns) : d.columns[i] \notin RegistryFields}
            badParts == {i \in Positions(d.filters) :
                           FieldOutside(d.filters[i]) \/ OperatorOutside(d.filters[i])}
            e == sb_result.exc
        IN  /\ search_raw.kind = "text" => Rejected /\ MalformedResponse(e)
            /\ (search_raw.kind = "json" /\ ~WellShaped(d)) =>
                  Rejected /\ SchemaViolation(e)
            /\ (search_raw.kind = "json" /\ WellShaped(d) /\ badCols # {}) =>
                  /\ Rejected
                  /\ DisallowedField(e)
                  /\ e.arg = d.columns[First(badCols)]
            /\ (/\ search_raw.kind = "json" /\ WellShaped(d)
                /\ badCols = {} /\ badParts # {}) =>
                  LET part == d.filters[First(badParts)]
                  IN  /\ Rejected
                      /\ IF FieldOutside(part)
                         THEN DisallowedField(e) /\ e.arg = part.items[1]
                         ELSE DisallowedOperator(e) /\ e.arg = part.items[2]
            /\ Returned <=>
                  /\ search_raw.kind = "json" /\ WellShaped(d)
                  /\ badCols = {} /\ badParts = {}
            /\ Returned =>
                  /\ ReturnedSpec.filters = d.filters
                  /\ ReturnedSpec.columns = d.columns
                  /\ response.status = "ok"
                  /\ response.body.search_spec = SomeSpec(ReturnedSpec)

\* the wrong action and a disallowed column and field: SchemaViolation
C10_Witness ==
    /\ SearchAnswered
    /\ search_raw.kind = "json"
    /\ SearchData.action = Str("delete_saved_search")
    /\ SearchData.columns = <<"tranid", "secretfield">>
    /\ SearchData.filters = <<List(<<"custom_weird_field", "matches", "x">>)>>
    /\ Rejected
    /\ SchemaViolation(sb_result.exc)

=============================================================================
